---- MODULE Spec2Model ----
(***************************************************************************)
(* Model of weighted2D.py: mfunc (the criterion minimised over the slope)  *)
(* and wls2d (the straight-line fit with errors in both coordinates).      *)
(*                                                                         *)
(* Numbers.  numpy's float64 values are modelled as exact rationals        *)
(* <<n, d>> in lowest terms with d > 0, extended with the three IEEE       *)
(* special values the code can produce: <<1,0>> (+inf), <<-1,0>> (-inf)    *)
(* and <<0,0>> (nan).  Rounding is not modelled; division by zero, inf     *)
(* and nan propagate as numpy propagates them (a warning, never an         *)
(* exception).  np.sqrt(r) is represented by its radicand r (or nan for a  *)
(* negative or nan radicand): two roots are equal iff their radicands are. *)
(***************************************************************************)
EXTENDS Integers, Sequences, FiniteSets, TLC

----------------------------------------------------------------------------
(* Extended rational arithmetic                                            *)

Abs(n) == IF n < 0 THEN -n ELSE n

Sgn(n) == IF n > 0 THEN 1 ELSE IF n < 0 THEN -1 ELSE 0

RECURSIVE GCD(_, _)
GCD(a, b) == IF b = 0 THEN a ELSE GCD(b, a % b)

NaN == <<0, 0>>

PInf == <<1, 0>>

Zero == <<0, 1>>

One == <<1, 1>>

I(k) == <<k, 1>>

IsNaN(a) == a[2] = 0 /\ a[1] = 0

IsFinite(a) == a[2] # 0

IsZero(a) == a[2] # 0 /\ a[1] = 0

IsPos(a) == a[1] > 0

IsNeg(a) == a[1] < 0

Norm(n, d) ==
    IF d = 0 THEN <<Sgn(n), 0>>
    ELSE LET g == GCD(Abs(n), Abs(d))
             s == IF d < 0 THEN -1 ELSE 1
         IN  <<(s * n) \div g, (s * d) \div g>>

Neg(a) == <<-a[1], a[2]>>

Mul(a, b) ==
    IF a[2] = 0 \/ b[2] = 0 THEN <<Sgn(a[1] * b[1]), 0>>
    ELSE LET g1 == GCD(Abs(a[1]), b[2])
             g2 == GCD(Abs(b[1]), a[2])
         IN  <<(a[1] \div g1) * (b[1] \div g2), (a[2] \div g2) * (b[2] \div g1)>>

\* x/0 is +-inf (nan for 0/0), x/inf is 0, inf/inf is nan.
Div(a, b) ==
    IF IsZero(b) THEN <<Sgn(a[1]), 0>>
    ELSE IF b[2] = 0 THEN (IF a[2] = 0 \/ b[1] = 0 THEN NaN ELSE Zero)
    ELSE IF b[1] > 0 THEN Mul(a, <<b[2], b[1]>>)
    ELSE Mul(a, <<-b[2], -b[1]>>)

Add(a, b) ==
    IF a[2] = 0 \/ b[2] = 0
    THEN IF a[2] = 0 /\ b[2] = 0 THEN (IF a[1] = b[1] THEN a ELSE NaN)
         ELSE IF a[2] = 0 THEN a ELSE b
    ELSE LET g == GCD(a[2], b[2])
         IN  Norm(a[1] * (b[2] \div g) + b[1] * (a[2] \div g), (a[2] \div g) * b[2])

Sub(a, b) == Add(a, Neg(b))

Sq(a) == Mul(a, a)

Cube(a) == Mul(a, Mul(a, a))

\* a < b as IEEE compares: false whenever either side is nan.
Less(a, b) ==
    IF IsNaN(a) \/ IsNaN(b) THEN FALSE
    ELSE IF a[2] = 0 \/ b[2] = 0
         THEN IF a[2] = 0 /\ b[2] = 0 THEN a[1] < b[1]
              ELSE IF a[2] = 0 THEN a[1] < 0 ELSE b[1] > 0
    ELSE LET g == GCD(a[2], b[2])
         IN  a[1] * (b[2] \div g) < b[1] * (a[2] \div g)

\* np.sqrt, represented by its radicand.
Sqrt(a) == IF IsNaN(a) \/ IsNeg(a) THEN NaN ELSE a

\* A vector as a concrete tuple, each element evaluated once.
Eager(v) == v \o <<>>

\* The member of a one-element set.  {F(s) : s \in {e}} evaluates e once and
\* hands F its value; the stages below are chained this way.
The(S) == CHOOSE r \in S : TRUE

RECURSIVE SumTo(_, _)
SumTo(v, k) == IF k = 0 THEN Zero ELSE Add(SumTo(v, k - 1), v[k])

\* np.sum over a vector.
Sum(v) == SumTo(v, Len(v))

----------------------------------------------------------------------------
(* Formulas shared by mfunc and wls2d                                      *)

\* A variant of Eq 8 with the sign of Wxi flipped in the divisor, for which
\* the positivity of the weights is lost.
WeightsMinus(m, Wxi, Wyi) ==
    Eager([i \in 1..Len(Wxi) |->
        Div(Mul(Wxi[i], Wyi[i]), Sub(Mul(Sq(m), Wyi[i]), Wxi[i]))])

\* Eq 8: Wi = Wxi*Wyi/(m**2*Wyi+Wxi), the weight of each data point.
Weights(m, Wxi, Wyi) ==
    Eager([i \in 1..Len(Wxi) |->
        Div(Mul(Wxi[i], Wyi[i]), Add(Mul(Sq(m), Wyi[i]), Wxi[i]))])

\* Eq 11, 12: np.sum(Wi*x)/np.sum(Wi).
WMean(Wi, x) == Div(Sum(Eager([i \in 1..Len(x) |-> Mul(Wi[i], x[i])])), Sum(Wi))

\* Eq 9, 10: deviations from the weighted mean.
Dev(x, xbar) == Eager([i \in 1..Len(x) |-> Sub(x[i], xbar)])

\* np.sum(Wi**2*U*V/Wzi), Wzi being Wxi or Wyi.
SumWUV(Wi, U, V, Wzi) ==
    Sum(Eager([i \in 1..Len(Wi) |-> Div(Mul(Mul(Sq(Wi[i]), U[i]), V[i]), Wzi[i])]))

\* A variant of the middle sum that multiplies V**2 by Wxi instead of dividing
\* by it; the criterion is then no longer homogeneous in the weights.
SumWDiffTimes(Wi, U, V, Wxi, Wyi) ==
    Sum(Eager([i \in 1..Len(Wi) |->
        Mul(Sq(Wi[i]), Sub(Div(Sq(U[i]), Wyi[i]), Mul(Sq(V[i]), Wxi[i])))]))

\* np.sum(Wi**2*(U**2/Wyi - V**2/Wxi)).
SumWDiff(Wi, U, V, Wxi, Wyi) ==
    Sum(Eager([i \in 1..Len(Wi) |->
        Mul(Sq(Wi[i]), Sub(Div(Sq(U[i]), Wyi[i]), Div(Sq(V[i]), Wxi[i])))]))

----------------------------------------------------------------------------
(* mfunc: the function minimised to find the best slope                    *)

\* Column k of an N x 2 array (x_in[:,0] is column 1, x_in[:,1] column 2).
Col(a, k) == Eager([i \in 1..Len(a) |-> a[i][k]])

\* Lines 19-22: x and y are separated from their weights.
mfuncArgs(m, x_in, y_in) ==
    [m |-> m, x |-> Col(x_in, 1), y |-> Col(y_in, 1),
     Wxi |-> Col(x_in, 2), Wyi |-> Col(y_in, 2),
     Wi |-> <<>>, xbar |-> NaN, ybar |-> NaN, U |-> <<>>, V |-> <<>>,
     raw |-> NaN, g |-> NaN]

\* Line 25.
mfuncWeights(s) == [s EXCEPT !.Wi = Weights(s.m, s.Wxi, s.Wyi)]

\* Lines 28-29.
mfuncMeans(s) == [s EXCEPT !.xbar = WMean(s.Wi, s.x), !.ybar = WMean(s.Wi, s.y)]

\* Lines 30-31.
mfuncDevs(s) == [s EXCEPT !.U = Dev(s.x, s.xbar), !.V = Dev(s.y, s.ybar)]

\* Lines 34-35, eq 19.
mfuncCriterion(s) ==
    [s EXCEPT !.raw = Sub(Add(Mul(Sq(s.m), SumWUV(s.Wi, s.U, s.V, s.Wxi)),
                              Mul(s.m, SumWDiff(s.Wi, s.U, s.V, s.Wxi, s.Wyi))),
                          SumWUV(s.Wi, s.U, s.V, s.Wyi))]

\* Line 36.
mfuncSquare(s) == [s EXCEPT !.g = Sq(s.raw)]

\* The run of mfunc: every local it computes.
mfuncTrace(m, x_in, y_in) ==
    The({mfuncSquare(e) : e \in
        {mfuncCriterion(d) : d \in
            {mfuncDevs(c) : c \in
                {mfuncMeans(b) : b \in
                    {mfuncWeights(a) : a \in {mfuncArgs(m, x_in, y_in)}}}}}})

\* Line 38: return g.
mfunc(m, x_in, y_in) == mfuncTrace(m, x_in, y_in).g

\* The divisors of mfunc's divisions (lines 25, 28, 29, 34, 35).
mfuncDivisors(s) ==
    {Add(Mul(Sq(s.m), s.Wyi[i]), s.Wxi[i]) : i \in 1..Len(s.x)}
    \cup {s.Wxi[i] : i \in 1..Len(s.x)} \cup {s.Wyi[i] : i \in 1..Len(s.x)}
    \cup {Sum(s.Wi)}

----------------------------------------------------------------------------
(* wls2d: the fit                                                          *)

\* Lines 74-75: Wxi = 1/(delx**2).
InvSq(del) == Eager([i \in 1..Len(del) |-> Div(One, Sq(del[i]))])

\* Lines 84-85: np.append(x, Wxi, axis=1), an N x 2 array.
Append2(x, W) == Eager([i \in 1..Len(x) |-> <<x[i], W[i]>>])

\* Line 88: the unweighted least-squares slope, the minimiser's start.
OLSDen(N, x) ==
    Sub(Mul(I(N), Sum(Eager([i \in 1..Len(x) |-> Sq(x[i])]))), Sq(Sum(x)))

OLS(N, x, y) ==
    Div(Sub(Mul(I(N), Sum(Eager([i \in 1..Len(x) |-> Mul(x[i], y[i])]))),
            Mul(Sum(x), Sum(y))),
        OLSDen(N, x))

\* Line 105, Eq 13.
Intercept(m, xbar, ybar) == Sub(ybar, Mul(m, xbar))

\* A variant of Eq 14 without the weights: a plain sum of squared residuals.
ResidualUnweighted(m, Wi, U, V) ==
    Sum(Eager([i \in 1..Len(Wi) |-> Sq(Sub(V[i], Mul(m, U[i])))]))

\* Line 108, Eq 14: sum of weighted residuals.
Residual(m, Wi, U, V) ==
    Sum(Eager([i \in 1..Len(Wi) |-> Mul(Wi[i], Sq(Sub(V[i], Mul(m, U[i]))))]))

\* An N x 1 column array: N rows of one entry each.
Column(v) == Eager([i \in 1..Len(v) |-> <<v[i]>>])

\* numpy.matlib.repmat(a, p, q): a tiled p times down and q times across.
Repmat(a, p, q) ==
    Eager([i \in 1..(p * Len(a)) |->
        Eager([j \in 1..(q * Len(a[1])) |->
            a[((i - 1) % Len(a)) + 1][((j - 1) % Len(a[1])) + 1]])])

\* A variant tiling: Wj laid out as a 1 x N row and repeated N times down.
TiledDown(Wj, N) == Repmat(<<Wj>>, N, 1)

\* Line 129: repmat(Wj,1,N), Wj being the N x 1 column of weights.
Tiled(Wj, N) == Repmat(Column(Wj), 1, N)

\* Line 128: np.eye(N), the Kronecker delta.
Eye(N) == Eager([i \in 1..N |-> Eager([j \in 1..N |-> I(IF i = j THEN 1 ELSE 0)])])

\* A variant of line 129 with the sign slipped: delta + rep/W.
PlusScaled(delta, rep, W) ==
    Eager([i \in 1..Len(delta) |->
        Eager([j \in 1..Len(delta[i]) |-> Add(delta[i][j], Div(rep[i][j], W))])])

\* Line 129: delta - rep/W, element by element.
MinusScaled(delta, rep, W) ==
    Eager([i \in 1..Len(delta) |->
        Eager([j \in 1..Len(delta[i]) |-> Sub(delta[i][j], Div(rep[i][j], W))])])

\* np.dot(M, v) for an N x 1 column v.
Dot(M, v) ==
    Eager([i \in 1..Len(M) |-> Sum(Eager([j \in 1..Len(v) |-> Mul(M[i][j], v[j])]))])

\* The vectors delmat is multiplied into: Wi**2*T/Wzi.
Scaled(Wi, T, Wzi) == Eager([i \in 1..Len(Wi) |-> Div(Mul(Sq(Wi[i]), T[i]), Wzi[i])])

\* Lines 136-138: the denominator shared by dmdxj and dmdyj.
Denominator(m, A, B, AA, BB, CC) ==
    Sub(Add(Sub(Add(Mul(Mul(I(2), m), A), B), Mul(AA, Sq(m))), Mul(BB, m)), CC)

\* Lines 141-142, Eq 21: np.sqrt(S/(N-2)*np.sum(1/Wyi*dy**2 + 1/Wxi*dx**2)).
Uncertainty(S, N, Wxi, Wyi, dx, dy) ==
    Sqrt(Mul(Div(S, I(N - 2)),
             Sum(Eager([i \in 1..Len(dx) |->
                 Add(Mul(Div(One, Wyi[i]), Sq(dy[i])), Mul(Div(One, Wxi[i]), Sq(dx[i])))]))))

\* wls2d's locals once the slope m is known (line 93).  x, y are the
\* reshaped inputs, Wxi, Wyi the weights of lines 74-75.
FitArgs(N, m, x, y, Wxi, Wyi) ==
    [N |-> N, m |-> m, x |-> x, y |-> y, Wxi |-> Wxi, Wyi |-> Wyi,
     Wi |-> <<>>, Wj |-> <<>>, xbar |-> NaN, ybar |-> NaN, U |-> <<>>, V |-> <<>>,
     c |-> NaN, S |-> NaN, lam |-> <<>>, W |-> NaN, HH |-> NaN, JJ |-> NaN,
     AA |-> NaN, BB |-> NaN, CC |-> NaN, delta |-> <<>>, rep |-> <<>>, delmat |-> <<>>,
     DD |-> <<>>, EE |-> <<>>, FF |-> <<>>, GG |-> <<>>, A |-> NaN, B |-> NaN,
     den |-> NaN, dmdxj |-> <<>>, dmdyj |-> <<>>, dcdxj |-> <<>>, dcdyj |-> <<>>,
     delm |-> NaN, delc |-> NaN, fitparams |-> <<>>]

\* Eq A3 (line 124).
EqA3(s) ==
    Sub(Mul(Mul(I(4), s.m),
            Sum(Eager([i \in 1..s.N |->
                Div(Mul(Mul(Cube(s.Wi[i]), s.U[i]), s.V[i]), Sq(s.Wxi[i]))]))),
        Div(Mul(Mul(s.W, s.HH), s.JJ), s.m))

\* Eq A4 (lines 125-126).
EqA4(s) ==
    Neg(Sum(Eager([i \in 1..s.N |-> Mul(Sq(s.Wi[i]),
        Add(Sub(Mul(Div(Mul(Mul(I(4), s.m), s.Wi[i]), s.Wxi[i]),
                    Sub(Div(Sq(s.U[i]), s.Wyi[i]), Div(Sq(s.V[i]), s.Wxi[i]))),
                Div(Mul(Mul(I(2), s.V[i]), s.HH), s.Wxi[i])),
            Div(Mul(Mul(I(2), s.U[i]), s.JJ), s.Wyi[i])))])))

\* Eq A5 (line 127).
EqA5(s) ==
    Neg(Sum(Eager([i \in 1..s.N |-> Mul(Div(Sq(s.Wi[i]), s.Wyi[i]),
        Add(Add(Div(Mul(Mul(Mul(Mul(I(4), s.m), s.Wi[i]), s.U[i]), s.V[i]), s.Wxi[i]),
                Mul(s.V[i], s.JJ)),
            Mul(s.U[i], s.HH)))])))

\* Eq A1 (line 136) and Eq A2 (lines 137-138), entry i.
EqA1(s, i) ==
    Div(Mul(I(-1), Sub(Add(Mul(Sq(s.m), s.DD[i]), Mul(s.m, s.EE[i])), s.FF[i])), s.den)

EqA2(s, i) ==
    Div(Mul(I(-1), Sub(Sub(Mul(Sq(s.m), s.GG[i]), Mul(Mul(I(2), s.m), s.DD[i])),
                       Mul(<<1, 2>>, s.EE[i]))), s.den)

\* Eq A13 (line 139) and Eq A14 (line 140), entry i.
EqA13(s, i) ==
    Sub(Mul(Sub(Sub(s.HH, Mul(s.m, s.JJ)), s.xbar), s.dmdxj[i]),
        Div(Mul(s.m, s.Wj[i]), s.W))

EqA14(s, i) ==
    Add(Mul(Sub(Sub(s.HH, Mul(s.m, s.JJ)), s.xbar), s.dmdyj[i]), Div(s.Wj[i], s.W))

\* Lines 94-148 in order; step k reads the locals set by the steps before.
FitStep(k, s) ==
    CASE k = 1 ->   \* line 95
           [s EXCEPT !.Wi = Weights(s.m, s.Wxi, s.Wyi)]
      [] k = 2 ->   \* lines 96-100
           [s EXCEPT !.Wj = s.Wi, !.xbar = WMean(s.Wi, s.x), !.ybar = WMean(s.Wi, s.y)]
      [] k = 3 ->   \* lines 101-105
           [s EXCEPT !.U = Dev(s.x, s.xbar), !.V = Dev(s.y, s.ybar),
                     !.c = Intercept(s.m, s.xbar, s.ybar)]
      [] k = 4 ->   \* lines 108-111
           [s EXCEPT !.S = Residual(s.m, s.Wi, s.U, s.V),
                     !.lam = Eager([i \in 1..s.N |->
                                 Mul(s.Wi[i], Sub(Add(s.c, Mul(s.m, s.x[i])), s.y[i]))])]
      [] k = 5 ->   \* lines 112-113: x and y are rebound to the calculated points
           [s EXCEPT !.x = Eager([i \in 1..s.N |->
                               Sub(s.x[i], Div(Mul(s.lam[i], s.m), s.Wxi[i]))]),
                     !.y = Eager([i \in 1..s.N |-> Add(s.y[i], Div(s.lam[i], s.Wyi[i]))])]
      [] k = 6 ->   \* lines 114-115
           [s EXCEPT !.xbar = WMean(s.Wi, s.x), !.ybar = WMean(s.Wi, s.y)]
      [] k = 7 ->   \* lines 116-121
           [s EXCEPT !.U = Dev(s.x, s.xbar), !.V = Dev(s.y, s.ybar), !.W = Sum(s.Wi)]
      [] k = 8 ->   \* lines 122-123, 128, 134-135
           [s EXCEPT !.HH = Mul(Div(Mul(I(-2), s.m), s.W),
                                Sum(Scaled(s.Wi, s.V, s.Wxi))),
                     !.JJ = Mul(Div(Mul(I(-2), s.m), s.W),
                                Sum(Scaled(s.Wi, s.U, s.Wxi))),
                     !.delta = Eye(s.N),
                     !.rep = Tiled(s.Wj, s.N),
                     !.A = SumWUV(s.Wi, s.U, s.V, s.Wxi),
                     !.B = SumWDiff(s.Wi, s.U, s.V, s.Wxi, s.Wyi)]
      [] k = 9 ->   \* lines 124-129
           [s EXCEPT !.AA = EqA3(s), !.BB = EqA4(s), !.CC = EqA5(s),
                     !.delmat = MinusScaled(s.delta, s.rep, s.W)]
      [] k = 10 ->  \* lines 130-133
           [s EXCEPT !.DD = Dot(s.delmat, Scaled(s.Wi, s.V, s.Wxi)),
                     !.EE = Eager([i \in 1..s.N |->
                                Mul(I(2), Dot(s.delmat, Scaled(s.Wi, s.U, s.Wyi))[i])]),
                     !.FF = Dot(s.delmat, Scaled(s.Wi, s.V, s.Wyi)),
                     !.GG = Dot(s.delmat, Scaled(s.Wi, s.U, s.Wxi))]
      [] k = 11 ->  \* the denominator of lines 136-138
           [s EXCEPT !.den = Denominator(s.m, s.A, s.B, s.AA, s.BB, s.CC)]
      [] k = 12 ->  \* lines 136-138
           [s EXCEPT !.dmdxj = Eager([i \in 1..s.N |-> EqA1(s, i)]),
                     !.dmdyj = Eager([i \in 1..s.N |-> EqA2(s, i)])]
      [] k = 13 ->  \* lines 139-140
           [s EXCEPT !.dcdxj = Eager([i \in 1..s.N |-> EqA13(s, i)]),
                     !.dcdyj = Eager([i \in 1..s.N |-> EqA14(s, i)])]
      [] k = 14 ->  \* lines 141-142
           [s EXCEPT !.delm = Uncertainty(s.S, s.N, s.Wxi, s.Wyi, s.dmdxj, s.dmdyj),
                     !.delc = Uncertainty(s.S, s.N, s.Wxi, s.Wyi, s.dcdxj, s.dcdyj)]
      [] OTHER ->   \* lines 144-146
           [s EXCEPT !.fitparams = <<s.m, s.c, s.delm, s.delc>>]

RECURSIVE FitSteps(_, _, _)
FitSteps(s, k, last) ==
    IF k > last THEN s
    ELSE FitSteps(The({FitStep(k, t) : t \in {s}}), k + 1, last)

\* Lines 94-148: the locals of wls2d at its return.
Fit(N, m, x, y, Wxi, Wyi) == FitSteps(FitArgs(N, m, x, y, Wxi, Wyi), 1, 15)

\* The divisors of the divisions of lines 94-142.
FitDivisors(N, m, Wxi, Wyi, W, den) ==
    {Add(Mul(Sq(m), Wyi[i]), Wxi[i]) : i \in 1..Len(Wxi)}
    \cup {Wxi[i] : i \in 1..Len(Wxi)} \cup {Wyi[i] : i \in 1..Len(Wyi)}
    \cup {W, m, den, I(N - 2)}

----------------------------------------------------------------------------
(* The minimiser.  scipy.optimize.fmin is an external library, known here  *)
(* by its contract only: a derivative-free search that starts at x0,       *)
(* evaluates func, stops when its tolerance is met or its iteration budget *)
(* is spent, and returns the best point it holds either way.  It is        *)
(* modelled as a descent on the lattice x0 + k*FminStep.                   *)

FminStep == <<1, 2>>

\* a <= b as IEEE compares.
LessEq(a, b) == ~IsNaN(a) /\ ~IsNaN(b) /\ ~Less(b, a)

\* func at the point held and at its two neighbours.
Probe(sim, xWxi, yWyi) ==
    [at |-> mfunc(sim, xWxi, yWyi),
     lo |-> mfunc(Sub(sim, FminStep), xWxi, yWyi),
     hi |-> mfunc(Add(sim, FminStep), xWxi, yWyi)]

\* The tolerance test: no neighbour is better than the point held.
Converged(f) == LessEq(f.at, f.lo) /\ LessEq(f.at, f.hi)

\* The point held after one more iteration.
Descend(sim, f) ==
    IF Less(f.lo, f.at) /\ ~Less(f.hi, f.lo) THEN Sub(sim, FminStep)
    ELSE IF Less(f.hi, f.at) THEN Add(sim, FminStep)
    ELSE sim

----------------------------------------------------------------------------
(* The caller's arrays and the calls                                       *)

\* Cap on the minimiser's iteration budget, and on the calls of one run.
MaxIter == 2

MaxCalls == 2

\* Sample data.  Coordinates and errors are kept small enough for the exact
\* arithmetic above to stay within TLC's integers.
Coords == {0, 1, 2}

XSamples == {<<0, 1, 2>>, <<1, 1, 1>>, <<0, 1>>, <<1, 1>>}

YSamples(N) == [1..N -> Coords]

\* Errors (delx, dely): all 1; 2 and 1; a zero entry in delx; a negative
\* entry in dely.
SigmaPairs(N) ==
    {<<[i \in 1..N |-> I(1)], [i \in 1..N |-> I(1)]>>,
     <<[i \in 1..N |-> I(2)], [i \in 1..N |-> I(1)]>>,
     <<[i \in 1..N |-> IF i = 2 THEN Zero ELSE One], [i \in 1..N |-> I(1)]>>,
     <<[i \in 1..N |-> I(1)], [i \in 1..N |-> IF i = 1 THEN I(-1) ELSE One]>>}

\* Factors by which the caller may rescale both error arrays between calls.
Scales == {2}

\* numpy shapes of the caller's x and y: (n,) "flat", (n,1) "col", (1,n) "row".
ShapePairs == {<<"flat", "flat">>, <<"row", "flat">>, <<"flat", "row">>}

Ints(v) == [i \in 1..Len(v) |-> I(v[i])]

Arr(shape, data) == [shape |-> shape, data |-> data]

\* len(a): the size of the first axis.
PyLen(a) == IF a.shape = "row" THEN 1 ELSE Len(a.data)

\* a.shape = (N,1) succeeds iff the array holds N*1 numbers.
CanReshape(a, N) == Len(a.data) = N

\* A variant reshape to (1,N): the array is left as a row.
ReshapedRow(a) == Arr("row", a.data)

\* Lines 78-79: x.shape = (N,1) on the caller's own array.
Reshaped(a) == Arr("col", a.data)

\* A variant that keeps the point only when the minimiser reports success.
SlopeTakenIfConverged(xopt, warnflag) == IF warnflag = 0 THEN xopt ELSE NaN

\* Line 91: m = fmin(...) is the point returned; no flag is looked at.
SlopeTaken(xopt, warnflag) == xopt

VARIABLES
    x, y, delx, dely,   \* the caller's four arrays
    pc,                 \* "idle" (no call running), "fmin", "post"
    loc,                \* wls2d's locals: N, Wxi, Wyi, xWxi, yWyi, m0, m
    sim, fsim, iter,    \* the minimiser: point held, func around it, iterations used
    maxiter,            \* the minimiser's iteration budget
    ncall,              \* minimiser invocations of the running call
    pre,                \* the four arrays as they were when the call began
    scaled,             \* factor the caller applied since the last call (0: none)
    log,                \* one record per finished call
    mf,                 \* an evaluation of mfunc on its own
    cen                 \* a construction of the centering matrix on its own

vars == <<x, y, delx, dely, pc, loc, sim, fsim, iter, maxiter, ncall, pre, scaled, log,
          mf, cen>>

NoLoc == [N |-> 0, Wxi |-> <<>>, Wyi |-> <<>>, xWxi |-> <<>>, yWyi |-> <<>>,
          m0 |-> NaN, m |-> NaN, warnflag |-> 0]

NoProbe == [at |-> NaN, lo |-> NaN, hi |-> NaN]

Idle ==
    /\ pc = "idle"
    /\ loc = NoLoc
    /\ sim = NaN
    /\ fsim = NoProbe
    /\ iter = 0
    /\ ncall = 0
    /\ pre = <<>>
    /\ scaled = 0
    /\ log = <<>>

Init ==
    /\ \E xs \in XSamples, sh \in ShapePairs :
         /\ x = Arr(sh[1], Ints(xs))
         /\ \E ys \in YSamples(Len(xs)) : y = Arr(sh[2], Ints(ys))
         /\ \E sg \in SigmaPairs(Len(xs)) :
              /\ delx = Arr("flat", sg[1])
              /\ dely = Arr("flat", sg[2])
    /\ maxiter \in 0..MaxIter
    /\ Idle
    /\ mf = <<>>
    /\ cen = <<>>

\* Lines 71-91 up to the minimiser's first evaluation.  N = len(x); the
\* weights are new arrays; x.shape and y.shape are assigned on the caller's
\* own arrays.  x.shape = (N,1) raises ValueError when x does not hold N
\* numbers (a (1,n) row has len 1), before anything is changed; y holds as
\* many numbers as x, so its assignment succeeds.
Call ==
    /\ pc = "idle"
    /\ Len(log) < MaxCalls
    /\ LET N == PyLen(x)
           Wxi == InvSq(delx.data)
           Wyi == InvSq(dely.data)
       IN  IF ~CanReshape(x, N)
           THEN /\ log' = Append(log, [outcome |-> "raised", scaled |-> scaled,
                                       pre |-> <<x, y, delx, dely>>,
                                       post |-> <<x, y, delx, dely>>])
                /\ scaled' = 0
                /\ UNCHANGED <<x, y, pc, loc, sim, fsim, iter, ncall, pre>>
           ELSE /\ x' = Reshaped(x)
                /\ y' = Reshaped(y)
                /\ pre' = <<x, y, delx, dely>>
                /\ loc' = [N |-> N, Wxi |-> Wxi, Wyi |-> Wyi,
                           xWxi |-> Append2(x.data, Wxi), yWyi |-> Append2(y.data, Wyi),
                           m0 |-> OLS(N, x.data, y.data), m |-> NaN, warnflag |-> 0]
                /\ sim' = loc'.m0
                /\ fsim' = Probe(sim', loc'.xWxi, loc'.yWyi)
                /\ iter' = 0
                /\ ncall' = ncall + 1
                /\ pc' = "fmin"
                /\ UNCHANGED <<scaled, log>>
    /\ UNCHANGED <<delx, dely, maxiter, mf, cen>>

\* One iteration of the minimiser.
FminIterate ==
    /\ pc = "fmin"
    /\ iter < maxiter
    /\ ~Converged(fsim)
    /\ sim' = Descend(sim, fsim)
    /\ fsim' = Probe(sim', loc.xWxi, loc.yWyi)
    /\ iter' = iter + 1
    /\ UNCHANGED <<x, y, delx, dely, pc, loc, maxiter, ncall, pre, scaled, log, mf, cen>>

\* Line 91: fmin returns the point it holds, converged (warnflag 0) or with
\* its budget spent (warnflag 2).
FminReturn ==
    /\ pc = "fmin"
    /\ Converged(fsim) \/ iter >= maxiter
    /\ LET warnflag == IF Converged(fsim) THEN 0 ELSE 2
       IN  loc' = [loc EXCEPT !.m = SlopeTaken(sim, warnflag), !.warnflag = warnflag]
    /\ pc' = "post"
    /\ UNCHANGED <<x, y, delx, dely, sim, fsim, iter, maxiter, ncall, pre, scaled, log,
                   mf, cen>>

\* Lines 94-148: the rest of the fit and the return of fitparams.  x and y
\* are rebound to new arrays on lines 112-113; the caller's keep their data.
Return ==
    /\ pc = "post"
    /\ \E r \in {Fit(loc.N, loc.m, x.data, y.data, loc.Wxi, loc.Wyi)} :
         log' = Append(log, [outcome |-> "returned", scaled |-> scaled,
                             pre |-> pre, post |-> <<x, y, delx, dely>>,
                             N |-> loc.N, m0 |-> loc.m0, best |-> sim, iters |-> iter,
                             warnflag |-> loc.warnflag, ncall |-> ncall,
                             fitparams |-> r.fitparams, den |-> r.den,
                             divisors |-> FitDivisors(loc.N, loc.m, loc.Wxi, loc.Wyi,
                                                      r.W, r.den)])
    /\ pc' = "idle"
    /\ loc' = NoLoc
    /\ sim' = NaN
    /\ fsim' = NoProbe
    /\ iter' = 0
    /\ ncall' = 0
    /\ pre' = <<>>
    /\ scaled' = 0
    /\ UNCHANGED <<x, y, delx, dely, maxiter, mf, cen>>

\* The caller multiplies both error arrays by k between two calls (once).
Rescale ==
    /\ pc = "idle"
    /\ Len(log) >= 1
    /\ Len(log) < MaxCalls
    /\ scaled = 0
    /\ \A i \in 1..Len(log) : log[i].scaled = 0
    /\ \E k \in Scales :
         /\ delx' = Arr(delx.shape, [i \in 1..Len(delx.data) |-> Mul(I(k), delx.data[i])])
         /\ dely' = Arr(dely.shape, [i \in 1..Len(dely.data) |-> Mul(I(k), dely.data[i])])
         /\ scaled' = k
    /\ UNCHANGED <<x, y, pc, loc, sim, fsim, iter, maxiter, ncall, pre, log, mf, cen>>

Next == Call \/ FminIterate \/ FminReturn \/ Return \/ Rescale

Spec == Init /\ [][Next]_vars

----------------------------------------------------------------------------
(* mfunc on its own: one evaluation at a trial slope, and a second one     *)
(* with both error arrays multiplied by k                                  *)

\* Trial slopes.
Slopes == {<<-1, 1>>, Zero, <<1, 2>>, One, <<2, 1>>}

MfXSamples == {<<1>>, <<0, 1>>, <<0, 1, 2>>}

Const(N, c) == [i \in 1..N |-> c]

\* One entry of an otherwise constant vector replaced.
OneOff(N, c, d) == [i \in 1..N |-> IF i = 1 THEN d ELSE c]

\* (delx, dely): the uniform pairs over {1, 2}, one unequal entry on either
\* side, and a zero error.
MfSigmaPairs(N) ==
    {<<Const(N, a), Const(N, b)>> : a \in {One, I(2)}, b \in {One, I(2)}}
    \cup {<<Const(N, One), OneOff(N, One, I(2))>>,
          <<OneOff(N, One, I(2)), Const(N, One)>>,
          <<OneOff(N, One, Zero), Const(N, One)>>}

Times(k, v) == Eager([i \in 1..Len(v) |-> Mul(I(k), v[i])])

NoCall ==
    /\ x = <<>>
    /\ y = <<>>
    /\ delx = <<>>
    /\ dely = <<>>
    /\ maxiter = 0
    /\ Idle

MfInit ==
    /\ NoCall
    /\ cen = <<>>
    /\ \E xs \in MfXSamples, m \in Slopes, k \in Scales :
         \E ys \in YSamples(Len(xs)), d \in MfSigmaPairs(Len(xs)) :
            mf = [stage |-> "in", m |-> m, x |-> Ints(xs), y |-> Ints(ys),
                  dx |-> d[1], dy |-> d[2], k |-> k,
                  base |-> <<>>, c |-> NaN, scaled |-> <<>>, ck |-> NaN]

\* mfunc(m, xWxi, yWyi) as wls2d calls it (lines 74-85, 91), and the
\* intercept wls2d derives at that slope (lines 95-105).
MfRun(m, xs, ys, dx, dy) ==
    [trace |-> mfuncTrace(m, Append2(xs, InvSq(dx)), Append2(ys, InvSq(dy))),
     c |-> FitSteps(FitArgs(Len(xs), m, xs, ys, InvSq(dx), InvSq(dy)), 1, 3).c]

MfEvaluate ==
    /\ mf.stage = "in"
    /\ \E r \in {MfRun(mf.m, mf.x, mf.y, mf.dx, mf.dy)} :
         mf' = [mf EXCEPT !.stage = "base", !.base = r.trace, !.c = r.c]
    /\ UNCHANGED <<x, y, delx, dely, pc, loc, sim, fsim, iter, maxiter, ncall, pre, scaled,
                   log, cen>>

MfEvaluateScaled ==
    /\ mf.stage = "base"
    /\ \E r \in {MfRun(mf.m, mf.x, mf.y, Times(mf.k, mf.dx), Times(mf.k, mf.dy))} :
         mf' = [mf EXCEPT !.stage = "both", !.scaled = r.trace, !.ck = r.c]
    /\ UNCHANGED <<x, y, delx, dely, pc, loc, sim, fsim, iter, maxiter, ncall, pre, scaled,
                   log, cen>>

MfNext == MfEvaluate \/ MfEvaluateScaled

MfuncSpec == MfInit /\ [][MfNext]_vars

----------------------------------------------------------------------------
(* The centering matrix on its own: lines 95-96, 121, 128-133 for a slope, *)
(* a pair of weight vectors and a vector v to multiply                     *)

CenSlopes == {Zero, <<1, 2>>, One}

CenInit ==
    /\ NoCall
    /\ mf = <<>>
    /\ \E N \in {2, 3}, m \in CenSlopes :
         \E dy \in [1..N -> {One, I(2)}], v \in [1..N -> Coords] :
            cen = [stage |-> "in", N |-> N, m |-> m,
                   Wxi |-> InvSq([i \in 1..N |-> One]), Wyi |-> InvSq(dy), v |-> Ints(v),
                   Wj |-> <<>>, W |-> NaN, delta |-> <<>>, rep |-> <<>>,
                   delmat |-> <<>>, prod |-> <<>>]

\* Lines 95-96 and 121.
CenWeights ==
    /\ cen.stage = "in"
    /\ \E Wi \in {Weights(cen.m, cen.Wxi, cen.Wyi)} :
         cen' = [cen EXCEPT !.stage = "weights", !.Wj = Wi, !.W = Sum(Wi)]
    /\ UNCHANGED <<x, y, delx, dely, pc, loc, sim, fsim, iter, maxiter, ncall, pre, scaled,
                   log, mf>>

\* Lines 128-129.
CenMatrix ==
    /\ cen.stage = "weights"
    /\ \E delta \in {Eye(cen.N)}, rep \in {Tiled(cen.Wj, cen.N)} :
         cen' = [cen EXCEPT !.stage = "matrix", !.delta = delta, !.rep = rep,
                            !.delmat = MinusScaled(delta, rep, cen.W)]
    /\ UNCHANGED <<x, y, delx, dely, pc, loc, sim, fsim, iter, maxiter, ncall, pre, scaled,
                   log, mf>>

\* Lines 130-133: np.dot(delmat, v).
CenProduct ==
    /\ cen.stage = "matrix"
    /\ cen' = [cen EXCEPT !.stage = "product", !.prod = Dot(cen.delmat, cen.v)]
    /\ UNCHANGED <<x, y, delx, dely, pc, loc, sim, fsim, iter, maxiter, ncall, pre, scaled,
                   log, mf>>

CenNext == CenWeights \/ CenMatrix \/ CenProduct

CenterSpec == CenInit /\ [][CenNext]_vars

----------------------------------------------------------------------------
(* Properties                                                              *)

Returned(e) == e.outcome = "returned"

AllFinite(fp) == \A k \in 1..Len(fp) : IsFinite(fp[k])

AllPos(v) == \A i \in 1..Len(v) : IsPos(v[i]) /\ IsFinite(v[i])

Uniform(v) == \A i \in 1..Len(v) : v[i] = v[1]

\* The preconditions the specification states for a call, read off the
\* arrays the caller passed (and, for a finished call, the denominator shared
\* by the slope sensitivities).
PreconditionViolated(e) ==
    LET xs == e.pre[1].data
        dx == e.pre[3].data
        dy == e.pre[4].data
    IN  \/ Len(xs) < 3
        \/ ~AllPos(dx)
        \/ ~AllPos(dy)
        \/ IsZero(OLSDen(Len(xs), xs))
        \/ (Returned(e) /\ IsZero(e.den))

\* C1: after a call on valid input returns, each of the caller's arrays x,
\* y, delx, dely has the values and the shape it had before the call.
C1_InputsUnchanged ==
    \A i \in 1..Len(log) :
        (Returned(log[i]) /\ ~PreconditionViolated(log[i])) => log[i].post = log[i].pre

\* C2: a call whose input violates a precondition (N < 3, an error <= 0,
\* all x identical, zero shared denominator) ends in an error and returns
\* no four numbers.
C2_ViolationRaises ==
    \A i \in 1..Len(log) : PreconditionViolated(log[i]) => log[i].outcome = "raised"

\* C3: two calls in sequence on the same four arrays end the same way and,
\* when they return, return the same four outputs.
C3_RepeatedCallSameResult ==
    \A i \in 1..(Len(log) - 1) :
        log[i + 1].scaled = 0 =>
            /\ log[i + 1].outcome = log[i].outcome
            /\ Returned(log[i]) => log[i + 1].fitparams = log[i].fitparams

C3_Witness ==
    /\ Len(log) >= 2
    /\ log[2].scaled = 0
    /\ Returned(log[1])
    /\ Returned(log[2])
    /\ log[1].pre[1].shape = "flat"
    /\ log[2].pre[1].shape = "col"
    /\ AllFinite(log[1].fitparams)
    /\ ~IsZero(log[1].fitparams[1])
    /\ IsPos(log[1].fitparams[3])

\* Calls i and i+1 both returned, on a sample of uniform positive errors
\* that the caller multiplied by k in between, with equal slope and intercept.
RescaledPair(i) ==
    /\ i + 1 <= Len(log)
    /\ log[i + 1].scaled > 0
    /\ Returned(log[i])
    /\ Returned(log[i + 1])
    /\ Uniform(log[i].pre[3].data)
    /\ Uniform(log[i].pre[4].data)
    /\ AllPos(log[i].pre[3].data)
    /\ AllPos(log[i].pre[4].data)
    /\ log[i + 1].fitparams[1] = log[i].fitparams[1]
    /\ log[i + 1].fitparams[2] = log[i].fitparams[2]

\* k*sqrt(r), as a radicand.
ScaleRoot(k, r) == Mul(Sq(I(k)), r)

\* C5 as stated: multiplying uniform errors a, b by k multiplies the
\* returned delta_m and delta_c by k.
C5_UncertaintiesTimesK ==
    \A i \in 1..Len(log) :
        RescaledPair(i) =>
            /\ log[i + 1].fitparams[3] = ScaleRoot(log[i + 1].scaled, log[i].fitparams[3])
            /\ log[i + 1].fitparams[4] = ScaleRoot(log[i + 1].scaled, log[i].fitparams[4])

\* C5: multiplying uniform errors a, b by k leaves the returned delta_m and
\* delta_c as they were (the residual sum S shrinks by k^2 while the summed
\* sensitivities grow by k^2).
C5_UncertaintiesUnchanged ==
    \A i \in 1..Len(log) :
        RescaledPair(i) =>
            /\ log[i + 1].fitparams[3] = log[i].fitparams[3]
            /\ log[i + 1].fitparams[4] = log[i].fitparams[4]

C5_Witness ==
    \E i \in 1..Len(log) :
        /\ RescaledPair(i)
        /\ log[i].N >= 3
        /\ log[i + 1].scaled = 2
        /\ log[i].pre[3].data[1] # log[i].pre[4].data[1]
        /\ IsFinite(log[i].fitparams[3]) /\ IsPos(log[i].fitparams[3])
        /\ IsFinite(log[i].fitparams[4]) /\ IsPos(log[i].fitparams[4])

\* C6: when the minimiser stops with its budget spent and its tolerance not
\* met, the call takes the point it holds as m, having invoked it once, and
\* its next step returns the four outputs computed from that m.
C6_NonConvergedStillReturns ==
    [][ /\ (pc = "fmin" /\ ~Converged(fsim) /\ iter >= maxiter) =>
              /\ pc' = "post"
              /\ loc'.warnflag = 2
              /\ loc'.m = sim
              /\ ncall' = 1
        /\ (pc = "post" /\ loc.warnflag = 2) =>
              /\ pc' = "idle"
              /\ log' = Append(log, log'[Len(log')])
              /\ Returned(log'[Len(log')])
              /\ Len(log'[Len(log')].fitparams) = 4
              /\ log'[Len(log')].fitparams[1] = sim
              /\ log'[Len(log')].ncall = 1 ]_vars

C6_Witness ==
    \E i \in 1..Len(log) :
        /\ Returned(log[i])
        /\ log[i].warnflag = 2
        /\ log[i].iters >= 1
        /\ log[i].ncall = 1
        /\ log[i].fitparams[1] = log[i].best
        /\ log[i].best # log[i].m0
        /\ AllFinite(log[i].fitparams)

\* C10: on input meeting the preconditions and a finite slope from the
\* minimiser, no division after the minimisation has a zero divisor and the
\* four outputs are finite real numbers.
C10_OutputsFinite ==
    \A i \in 1..Len(log) :
        (Returned(log[i]) /\ ~PreconditionViolated(log[i]) /\ IsFinite(log[i].best)) =>
            /\ \A d \in log[i].divisors : ~IsZero(d)
            /\ AllFinite(log[i].fitparams)

----------------------------------------------------------------------------
(* Properties of mfunc (MfuncSpec)                                         *)

MfPositive == AllPos(InvSq(mf.dx)) /\ AllPos(InvSq(mf.dy))

\* C4: with uniform errors a, b, the criterion is zero at a slope for the
\* weights (Wx, Wy) exactly when it is zero there for (Wx/k^2, Wy/k^2), and
\* the intercept ybar - m*xbar at that slope is the same for both.
C4_RescalingKeepsSlopeAndIntercept ==
    (mf.stage = "both" /\ MfPositive /\ Uniform(mf.dx) /\ Uniform(mf.dy)) =>
        /\ IsZero(mf.base.g) <=> IsZero(mf.scaled.g)
        /\ mf.ck = mf.c

C4_Witness ==
    /\ mf.stage = "both"
    /\ MfPositive /\ Uniform(mf.dx) /\ Uniform(mf.dy)
    /\ Len(mf.x) = 3
    /\ mf.dx[1] # mf.dy[1]
    /\ ~IsZero(mf.m)
    /\ ~IsZero(mf.y[1])
    /\ IsZero(mf.base.g)
    /\ mf.scaled.Wxi[1] = Div(mf.base.Wxi[1], Sq(I(mf.k)))
    /\ mf.scaled.Wyi[1] = Div(mf.base.Wyi[1], Sq(I(mf.k)))

\* C7: for weights Wx[i] > 0, Wy[i] > 0 and any trial slope, every effective
\* weight is > 0, no divisor of mfunc is zero, and the value returned is the
\* square of the raw criterion, finite and >= 0.
C7_MfuncDefinedNonNegative ==
    (mf.stage # "in" /\ MfPositive) =>
        /\ AllPos(mf.base.Wi)
        /\ \A d \in mfuncDivisors(mf.base) : ~IsZero(d) /\ IsFinite(d)
        /\ mf.base.g = Sq(mf.base.raw)
        /\ IsFinite(mf.base.g)
        /\ ~IsNeg(mf.base.g)

C7_Witness ==
    /\ mf.stage # "in"
    /\ MfPositive
    /\ Len(mf.x) = 3
    /\ ~Uniform(mf.dy)
    /\ IsNeg(mf.m)
    /\ IsNeg(mf.base.raw)
    /\ IsPos(mf.base.g)

----------------------------------------------------------------------------
(* Properties of the centering matrix (CenterSpec)                         *)

Delta(i, j) == I(IF i = j THEN 1 ELSE 0)

\* C8 as stated: the entry of delmat at row i, column j is
\* delta_ij - Wj[j]/Wtot.
C8_EntryUsesColumnWeight ==
    cen.stage \in {"matrix", "product"} =>
        \A i \in 1..cen.N, j \in 1..cen.N :
            cen.delmat[i][j] = Sub(Delta(i, j), Div(cen.Wj[j], cen.W))

\* C8: the entry of delmat at row i, column j is delta_ij - Wj[i]/Wtot, the
\* weight being that of the row.
C8_EntryUsesRowWeight ==
    cen.stage \in {"matrix", "product"} =>
        \A i \in 1..cen.N, j \in 1..cen.N :
            cen.delmat[i][j] = Sub(Delta(i, j), Div(cen.Wj[i], cen.W))

C8_Witness ==
    /\ cen.stage = "matrix"
    /\ cen.N = 3
    /\ AllPos(cen.Wj)
    /\ cen.Wj[1] # cen.Wj[2]
    /\ cen.delmat[1][2] # cen.delmat[2][1]

\* C9: for positive weights Wj and any vector v, component i of the dense
\* product of delmat with v is v[i] - Wj[i]*sum(v)/Wtot.
C9_DenseEqualsRankOne ==
    (cen.stage = "product" /\ AllPos(cen.Wj)) =>
        \A i \in 1..cen.N :
            cen.prod[i] = Sub(cen.v[i], Div(Mul(cen.Wj[i], Sum(cen.v)), cen.W))

C9_Witness ==
    /\ cen.stage = "product"
    /\ cen.N = 3
    /\ AllPos(cen.Wj)
    /\ ~Uniform(cen.Wj)
    /\ ~Uniform(cen.v)
    /\ ~IsZero(Sum(cen.v))

====
